---- MODULE Spec2Model ----
(***************************************************************************)
(* Model of the PhenoAI C++ client (cpp_client/phenoaiclient.hpp).         *)
(*                                                                         *)
(* A std::string is a sequence of one-character strings.  A float is an    *)
(* integer number of halves (k stands for k/2), all exactly representable  *)
(* in binary32.  The libcurl easy handle _curl is "null" (curl_easy_init   *)
(* failed), "live", or "released" (a dangling pointer: the handle has been *)
(* passed to curl_easy_cleanup).  A prediction call takes two steps: the   *)
(* entry point builds the arguments of query, then query runs against the  *)
(* network and resultConstructor decodes its return value.                 *)
(***************************************************************************)
EXTENDS Integers, Sequences, FiniteSets, TLC

\* ------------------------------------------------------------------ bounds
\* Largest nParameters passed to predict_values.
MaxParams == 2
\* Largest number of prediction calls made on one client instance.
MaxCalls == 2

\* ----------------------------------------------------- strings and floats
\* Default precision of std::ostream for floating-point output.
Precision == 6

RECURSIVE Pow10(_)
Pow10(n) == IF n = 0 THEN 1 ELSE 10 * Pow10(n - 1)

DigitChar(d) == <<"0","1","2","3","4","5","6","7","8","9">>[d + 1]

RECURSIVE Digits(_)
\* Decimal digits of a natural number, most significant first.
Digits(n) == IF n < 10 THEN <<DigitChar(n)>>
             ELSE Digits(n \div 10) \o <<DigitChar(n % 10)>>

RECURSIVE StripZeros(_)
\* %g removes trailing zeros of the mantissa.
StripZeros(ds) == IF Len(ds) > 1 /\ ds[Len(ds)] = "0"
                  THEN StripZeros(SubSeq(ds, 1, Len(ds) - 1))
                  ELSE ds

\* Exponent style of %g: d[.ddddd]e+XX, the exponent has at least two digits.
Scientific(m, X) ==
    LET ds == StripZeros(Digits(m))
        mant == IF Len(ds) = 1 THEN ds
                ELSE <<ds[1], ".">> \o SubSeq(ds, 2, Len(ds))
        ex == IF X < 10 THEN <<"0">> \o Digits(X) ELSE Digits(X)
    IN mant \o <<"e", "+">> \o ex

\* buff << data[i]: operator<<(float) in the default ("C") locale, i.e. %g
\* with precision 6, of the float k/2.
Render(k) ==
    LET a == IF k < 0 THEN -k ELSE k
        sign == IF k < 0 THEN <<"-">> ELSE <<>>
        I == a \div 2
        half == a % 2
        frac == IF half = 1 THEN <<".", "5">> ELSE <<>>
        d == Len(Digits(I))
    IN  IF I = 0 THEN sign \o <<"0">> \o frac
        ELSE IF d < Precision THEN sign \o Digits(I) \o frac
        ELSE LET scale == Pow10(d - Precision)
                 q == I \div scale
                 twiceRem == 2 * (I % scale) + half
                 up == \/ twiceRem > scale
                       \/ twiceRem = scale /\ q % 2 = 1
                 r == IF up THEN q + 1 ELSE q
                 carry == r = Pow10(Precision)
                 m == IF carry THEN r \div 10 ELSE r
                 X == IF carry THEN d ELSE d - 1
             IN IF X < Precision THEN sign \o Digits(m)
                ELSE sign \o Scientific(m, X)

RECURSIVE EncodeLoopAlwaysComma(_, _, _, _)
\* The loop with the separator test dropped.
EncodeLoopAlwaysComma(data, nParameters, i, datalist) ==
    IF ~(i < nParameters) THEN datalist
    ELSE EncodeLoopAlwaysComma(data, nParameters, i + 1,
                               datalist \o <<",">> \o Render(data[i + 1]))

RECURSIVE EncodeLoop(_, _, _, _)
\* for(int i=0; i<nParameters; ++i){ if(datalist != "[") datalist += ",";
\*                                   datalist += buff.str(); }
\* data[i] of the 0-based C array is data[i + 1] of the sequence.
EncodeLoop(data, nParameters, i, datalist) ==
    IF ~(i < nParameters) THEN datalist
    ELSE LET sep == IF datalist # <<"[">> THEN datalist \o <<",">>
                    ELSE datalist
         IN EncodeLoop(data, nParameters, i + 1, sep \o Render(data[i + 1]))

\* The python-format list predict_values hands to query.
EncodeValues(data, nParameters) ==
    EncodeLoop(data, nParameters, 0, <<"[">>) \o <<"]">>

ModeValues == <<"v","a","l","u","e","s">>
ModeFile == <<"f","i","l","e">>

\* The POST body query builds.
PostString(mode, data, mapping) ==
    LET mapping_str == IF mapping THEN <<"1">> ELSE <<"0">>
    IN <<"g","e","t","_","r","e","s","u","l","t","s","_","a","s","_",
         "s","t","r","i","n","g","=","1","&","m","o","d","e","=">>
       \o mode \o <<"&","d","a","t","a","=">> \o data
       \o <<"&","m","a","p","p","i","n","g","=">> \o mapping_str

\* ------------------------------------------------------------ nlohmann::json
\* A JSON value.  Every value has the same fields: t is the type tag, s the
\* characters of a string, n the number, items the elements of an array or
\* the member values of an object, keys the member names of an object (kept
\* in order of insertion; no definition below depends on the order).
JValue(t, s, n, items, keys) ==
    [t |-> t, s |-> s, n |-> n, items |-> items, keys |-> keys]
JNull == JValue("null", <<>>, 0, <<>>, <<>>)
JString(s) == JValue("string", s, 0, <<>>, <<>>)
JNumber(n) == JValue("number", <<>>, n, <<>>, <<>>)
JArray(items) == JValue("array", <<>>, 0, items, <<>>)
JObject(keys, vals) == JValue("object", <<>>, 0, vals, keys)

KeyIndex(keys, key) == {i \in 1..Len(keys) : keys[i] = key}

\* Storing a member: a repeated name overwrites the earlier value.
PutMember(keys, vals, key, val) ==
    IF KeyIndex(keys, key) # {}
    THEN [keys |-> keys,
          vals |-> [vals EXCEPT ![CHOOSE i \in KeyIndex(keys, key) : TRUE] = val]]
    ELSE [keys |-> Append(keys, key), vals |-> Append(vals, val)]

\* Parser results: ok, the value v, and the index i of the next unread
\* character.
Fail == [ok |-> FALSE, v |-> JNull, i |-> 0]
Done(v, i) == [ok |-> TRUE, v |-> v, i |-> i]

\* The character at index i, "" past the end of the input.
At(s, i) == IF i >= 1 /\ i <= Len(s) THEN s[i] ELSE ""

DigitSet == {"0","1","2","3","4","5","6","7","8","9"}
DigitValue(c) == CHOOSE d \in 0..9 : DigitChar(d) = c

RECURSIVE SkipWs(_, _)
SkipWs(s, i) == IF At(s, i) = " " THEN SkipWs(s, i + 1) ELSE i

RECURSIVE ScanString(_, _, _)
\* The characters of a string literal after its opening quote.  Escape
\* sequences are outside the modelled grammar.
ScanString(s, i, acc) ==
    IF At(s, i) = "" \/ At(s, i) = "\\" THEN Fail
    ELSE IF At(s, i) = "\"" THEN Done(JString(acc), i + 1)
    ELSE ScanString(s, i + 1, Append(acc, s[i]))

RECURSIVE ScanDigits(_, _, _)
ScanDigits(s, i, n) ==
    IF At(s, i) \in DigitSet THEN ScanDigits(s, i + 1, 10 * n + DigitValue(s[i]))
    ELSE Done(JNumber(n), i)

\* A non-negative integer without leading zeros; fractions, exponents and
\* signs are outside the modelled grammar.
ScanNumber(s, i) ==
    IF At(s, i) = "0" THEN Done(JNumber(0), i + 1)
    ELSE ScanDigits(s, i, 0)

RECURSIVE ParseValue(_, _)
RECURSIVE ParseElements(_, _, _)
RECURSIVE ParseMembers(_, _, _, _)

\* The elements of an array from index i on: a value, then "," or "]".
ParseElements(s, i, acc) ==
    LET e == ParseValue(s, i)
        j == SkipWs(s, e.i)
    IN  IF ~e.ok THEN Fail
        ELSE IF At(s, j) = "," THEN ParseElements(s, j + 1, Append(acc, e.v))
        ELSE IF At(s, j) = "]" THEN Done(JArray(Append(acc, e.v)), j + 1)
        ELSE Fail

\* The members of an object from index i on: "name" : value, then "," or "}".
ParseMembers(s, i, keys, vals) ==
    LET j == SkipWs(s, i)
        k == IF At(s, j) = "\"" THEN ScanString(s, j + 1, <<>>) ELSE Fail
        c == SkipWs(s, k.i)
        e == IF k.ok /\ At(s, c) = ":" THEN ParseValue(s, c + 1) ELSE Fail
        m == SkipWs(s, e.i)
        put == PutMember(keys, vals, k.v.s, e.v)
    IN  IF ~e.ok THEN Fail
        ELSE IF At(s, m) = "," THEN ParseMembers(s, m + 1, put.keys, put.vals)
        ELSE IF At(s, m) = "}" THEN Done(JObject(put.keys, put.vals), m + 1)
        ELSE Fail

ParseValue(s, i) ==
    LET j == SkipWs(s, i)
        c == At(s, j)
    IN  IF c = "{" THEN
            IF At(s, SkipWs(s, j + 1)) = "}"
            THEN Done(JObject(<<>>, <<>>), SkipWs(s, j + 1) + 1)
            ELSE ParseMembers(s, j + 1, <<>>, <<>>)
        ELSE IF c = "[" THEN
            IF At(s, SkipWs(s, j + 1)) = "]"
            THEN Done(JArray(<<>>), SkipWs(s, j + 1) + 1)
            ELSE ParseElements(s, j + 1, <<>>)
        ELSE IF c = "\"" THEN ScanString(s, j + 1, <<>>)
        ELSE IF c \in DigitSet THEN ScanNumber(s, j)
        ELSE IF c = "n" /\ j + 3 <= Len(s) /\ SubSeq(s, j, j + 3) = <<"n","u","l","l">>
             THEN Done(JNull, j + 4)
        ELSE Fail

\* nlohmann::json::parse(result): one value, then only whitespace.
JsonParse(result) ==
    LET r == ParseValue(result, 1)
    IN  IF r.ok /\ SkipWs(result, r.i) = Len(result) + 1 THEN r ELSE Fail

\* Non-const json::operator[](key): null becomes an object, a missing member
\* is inserted as null, any other type throws type_error.  j is the value
\* after the access, val the member.
Subscript(j, key) ==
    IF j.t = "null"
    THEN [throws |-> FALSE, j |-> JObject(<<key>>, <<JNull>>), val |-> JNull]
    ELSE IF j.t = "object"
    THEN IF KeyIndex(j.keys, key) # {}
         THEN [throws |-> FALSE, j |-> j,
               val |-> j.items[CHOOSE i \in KeyIndex(j.keys, key) : TRUE]]
         ELSE [throws |-> FALSE,
               j |-> JObject(Append(j.keys, key), Append(j.items, JNull)),
               val |-> JNull]
    ELSE [throws |-> TRUE, j |-> j, val |-> JNull]

\* ------------------------------------------------------------ call outcomes
\* What a call does to its caller: kind is "returned" (doc is the result),
\* "threw" (exception is the C++ type thrown, what its what() text; the text
\* of the library's own exceptions is left empty), or "crashed".
NoOutcome == [kind |-> "none", doc |-> JNull, exception |-> "none", what |-> <<>>]
Returned(doc) == [NoOutcome EXCEPT !.kind = "returned", !.doc = doc]
Threw(exception, what) ==
    [NoOutcome EXCEPT !.kind = "threw", !.exception = exception, !.what = what]
Crashed == [NoOutcome EXCEPT !.kind = "crashed"]

KeyStatus == <<"s","t","a","t","u","s">>
KeyType == <<"t","y","p","e">>
KeyMessage == <<"m","e","s","s","a","g","e">>
StrError == <<"e","r","r","o","r">>

\* std::string x = json: the implicit conversion throws type_error unless the
\* value is a string.
resultConstructor(result) ==
    LET parsed == JsonParse(result)
        status == Subscript(parsed.v, KeyStatus)
        errortype == Subscript(status.j, KeyType)
        errormessage == Subscript(errortype.j, KeyMessage)
    IN  IF ~parsed.ok THEN Threw("parse_error", <<>>)
        ELSE IF status.throws THEN Threw("type_error", <<>>)
        ELSE IF status.val = JString(StrError) THEN
            IF errortype.val.t # "string" THEN Threw("type_error", <<>>)
            ELSE IF errormessage.val.t # "string" THEN Threw("type_error", <<>>)
            ELSE Threw("runtime_error",
                       errormessage.val.s \o <<" ", "(">> \o errortype.val.s \o <<")">>)
        ELSE Returned(status.j)

\* ------------------------------------------------------------- environment
\* The floats offered to predict_values, in halves: -0.5, 0, 1.5 and 1e6.
FloatVals == {-1, 0, 3, 2000000}
FloatArrays == UNION {[1..n -> FloatVals] : n \in 0..MaxParams}

\* The files offered to predict_file: a path that cannot be opened, an empty
\* file, and two files with content.
Files == {[readable |-> FALSE, content |-> <<>>],
          [readable |-> TRUE, content |-> <<>>],
          [readable |-> TRUE, content |-> <<"1",",","2">>],
          [readable |-> TRUE, content |-> <<"a","&","m","a","p","p","i","n","g","=","0">>]}

\* Response bodies of the server.
BodyOk == <<"{","\"","s","t","a","t","u","s","\"",":","\"","o","k","\"",",",
            "\"","p","\"",":","[","1",",","2","]","}">>
BodyOkSpace == <<"{","\"","s","t","a","t","u","s","\"",":","\"","o","k","\"","}"," ">>
BodyError == <<"{","\"","s","t","a","t","u","s","\"",":","\"","e","r","r","o","r","\"",",",
               "\"","t","y","p","e","\"",":","\"","E","\"",",",
               "\"","m","e","s","s","a","g","e","\"",":","\"","m","\"","}">>
BodyError2 == <<"{","\"","s","t","a","t","u","s","\"",":","\"","e","r","r","o","r","\"",",",
                "\"","t","y","p","e","\"",":","\"","F","\"",",",
                "\"","m","e","s","s","a","g","e","\"",":","\"","n","\"","}">>
BodyErrorNoType == <<"{","\"","s","t","a","t","u","s","\"",":","\"","e","r","r","o","r","\"","}">>
BodyNoStatus == <<"{","\"","p","\"",":","[","1",",","2","]","}">>
BodyArray == <<"[","1",",","2","]">>
BodyGarbage == <<"o","o","p","s">>
Bodies == {BodyOk, BodyError, BodyError2, BodyErrorNoType, BodyNoStatus,
           BodyArray, BodyGarbage, <<>>}

\* What the network does with one transfer: the server answers with a body
\* ("ok"), the connection is refused ("refused"), or the connection is lost
\* after got characters of the body have arrived ("dropped").
Reply(net, body, got) == [net |-> net, body |-> body, got |-> got]
Replies ==
    {Reply("ok", b, Len(b)) : b \in Bodies}
    \cup {Reply("refused", <<>>, 0)}
    \cup {Reply("dropped", BodyOk, k) : k \in {1, Len(BodyOk) - 1}}
    \cup {Reply("dropped", BodyOkSpace, Len(BodyOkSpace) - 1)}

\* What a use of the dangling handle can do: abort the process, be rejected
\* by libcurl with an error code, or run on the freed memory as if it were
\* live.
UseAfterRelease == {"crash", "rejected", "works"}

\* ------------------------------------------------------------------- query
\* WriteCallback appends the received characters to the buffer.
WriteCallback(userp, contents) == userp \o contents

\* The characters curl_easy_perform delivers to WriteCallback.
Delivered(reply) ==
    IF reply.net = "ok" THEN reply.body
    ELSE IF reply.net = "dropped" THEN SubSeq(reply.body, 1, reply.got)
    ELSE <<>>

HandleOp(op, handle) == [op |-> op, handle |-> handle]

\* query(mode, data, mapping) on handle state h.  readBuffer is the return
\* value, transfers the POST bodies handed to curl_easy_perform, ops the
\* libcurl calls made on _curl with the state the handle was in, curl the
\* state of _curl afterwards.  A failed transfer (res != CURLE_OK) is only
\* printed.
query(mode, data, mapping, h, reply, ub) ==
    LET poststring == PostString(mode, data, mapping)
        used == <<HandleOp("setopt", h), HandleOp("perform", h),
                  HandleOp("cleanup", h)>>
    IN  IF h = "null"
        THEN [readBuffer |-> <<>>, transfers |-> <<>>, ops |-> <<>>,
              curl |-> h, crashed |-> FALSE]
        ELSE IF h = "live" \/ ub = "works"
        THEN [readBuffer |-> WriteCallback(<<>>, Delivered(reply)),
              transfers |-> <<poststring>>, ops |-> used,
              curl |-> "released", crashed |-> FALSE]
        ELSE IF ub = "rejected"
        THEN [readBuffer |-> <<>>, transfers |-> <<>>, ops |-> used,
              curl |-> "released", crashed |-> FALSE]
        ELSE [readBuffer |-> <<>>, transfers |-> <<>>,
              ops |-> <<HandleOp("setopt", h)>>,
              curl |-> "released", crashed |-> TRUE]

\* Every string a call can hand to resultConstructor, and the decoder's
\* outcome on each of them.
Buffers == {WriteCallback(<<>>, Delivered(r)) : r \in Replies} \cup {<<>>}
Decoded == [result \in Buffers |-> resultConstructor(result)]

\* A success document of the server: an object whose status is not "error".
IsSuccessBody(body) ==
    LET r == JsonParse(body)
    IN  /\ r.ok
        /\ r.v.t = "object"
        /\ KeyIndex(r.v.keys, KeyStatus) # {}
        /\ Subscript(r.v, KeyStatus).val # JString(StrError)

\* For each success document of the server, the outcome of a call that
\* returns it.
Served == [body \in {b \in Bodies : IsSuccessBody(b)} |-> Returned(JsonParse(body).v)]

\* ------------------------------------------------------------------- state
VARIABLES
    curl,       \* _curl: "null", "live" or "released"
    phase,      \* "ready", "destroyed" (destructor ran) or "crashed"
    pc,         \* "idle", or "query": a prediction call is about to call query
    calls,      \* number of prediction calls made on this instance
    call,       \* the last prediction call: entry point, inputs, environment
    transfers,  \* POST bodies transferred by the last call
    ops,        \* libcurl calls the last call made on _curl
    decoded,    \* the string the last call handed to resultConstructor
    outcome,    \* what the last call did to its caller
    history     \* per call finished: did it return the document the server sent

vars == <<curl, phase, pc, calls, call, transfers, ops, decoded, outcome, history>>

NoReply == Reply("none", <<>>, 0)
NoCall == [entry |-> "none", floats |-> <<>>, readable |-> TRUE, mode |-> <<>>,
           data |-> <<>>, mapping |-> FALSE, reply |-> NoReply, ub |-> "none"]
NotDecoded == [passed |-> FALSE, result |-> <<>>]

\* PhenoAIClient(ip, port): curl_easy_init returns a handle or NULL.
Init ==
    /\ curl \in {"live", "null"}
    /\ phase = "ready"
    /\ pc = "idle"
    /\ calls = 0
    /\ call = NoCall
    /\ transfers = <<>>
    /\ ops = <<>>
    /\ decoded = NotDecoded
    /\ outcome = NoOutcome
    /\ history = <<>>

\* An entry point is called and has built the arguments of query.
Enter(entry, floats, readable, mode, data, mapping) ==
    /\ phase = "ready"
    /\ pc = "idle"
    /\ calls < MaxCalls
    /\ calls' = calls + 1
    /\ pc' = "query"
    /\ call' = [NoCall EXCEPT !.entry = entry, !.floats = floats,
                              !.readable = readable, !.mode = mode,
                              !.data = data, !.mapping = mapping]
    /\ transfers' = <<>>
    /\ ops' = <<>>
    /\ decoded' = NotDecoded
    /\ outcome' = NoOutcome
    /\ UNCHANGED <<curl, phase, history>>

\* predict_values(data, nParameters, mapping) up to its call of query.
predict_values ==
    \E data \in FloatArrays, mapping \in BOOLEAN :
        Enter("predict_values", data, TRUE, ModeValues,
              EncodeValues(data, Len(data)), mapping)

\* predict_file(filepath, mapping) up to its call of query: an ifstream that
\* failed to open reads as the empty string.
predict_file ==
    \E file \in Files, mapping \in BOOLEAN :
        Enter("predict_file", <<>>, file.readable, ModeFile,
              IF file.readable THEN file.content ELSE <<>>, mapping)

\* The undefined behaviour is only drawn when the handle is dangling.
UBChoices == IF curl = "released" THEN UseAfterRelease ELSE {"none"}

\* The rest of the prediction call: query runs against the network, then
\* resultConstructor decodes what query returned and the call ends.
QueryAndDecode ==
    \E reply \in Replies, ub \in UBChoices :
        LET q == query(call.mode, call.data, call.mapping, curl, reply, ub)
            out == IF q.crashed THEN Crashed ELSE Decoded[q.readBuffer]
        IN  /\ phase = "ready"
            /\ pc = "query"
            /\ pc' = "idle"
            /\ call' = [call EXCEPT !.reply = reply, !.ub = ub]
            /\ curl' = q.curl
            /\ transfers' = q.transfers
            /\ ops' = q.ops
            /\ decoded' = [passed |-> ~q.crashed, result |-> q.readBuffer]
            /\ outcome' = out
            /\ phase' = IF q.crashed THEN "crashed" ELSE phase
            /\ history' = Append(history,
                                 /\ reply.net = "ok"
                                 /\ reply.body \in DOMAIN Served
                                 /\ out = Served[reply.body])
            /\ UNCHANGED calls

\* ~PhenoAIClient(): curl_global_cleanup only; _curl is not touched.
Destroy ==
    /\ phase = "ready"
    /\ pc = "idle"
    /\ phase' = "destroyed"
    /\ UNCHANGED <<curl, pc, calls, call, transfers, ops, decoded, outcome, history>>

Next == predict_values \/ predict_file \/ QueryAndDecode \/ Destroy

Spec == Init /\ [][Next]_vars

\* ---------------------------------------------------- reading the request
\* The pieces of s between occurrences of the character sep.
RECURSIVE Split(_, _, _)
Split(s, sep, piece) ==
    IF s = <<>> THEN <<piece>>
    ELSE IF Head(s) = sep THEN <<piece>> \o Split(Tail(s), sep, <<>>)
    ELSE Split(Tail(s), sep, Append(piece, Head(s)))

\* The printable ASCII characters with codes 32 to 95 and 97 to 126.
Ascii ==
    <<" ","!","\"","#","$","%","&","'","(",")","*","+",",","-",".","/">> \o
    <<"0","1","2","3","4","5","6","7","8","9",":",";","<","=",">","?">> \o
    <<"@","A","B","C","D","E","F","G","H","I","J","K","L","M","N","O">> \o
    <<"P","Q","R","S","T","U","V","W","X","Y","Z","[","\\","]","^","_">> \o
    <<"a","b","c","d","e","f","g","h","i","j","k","l","m","n","o">> \o
    <<"p","q","r","s","t","u","v","w","x","y","z","{","|","}","~">>

HexDigits == <<"0","1","2","3","4","5","6","7","8","9","A","B","C","D","E","F">>
HexLower == <<"0","1","2","3","4","5","6","7","8","9","a","b","c","d","e","f">>
IsHex(c) == \E i \in 1..16 : HexDigits[i] = c \/ HexLower[i] = c
HexValue(c) == (CHOOSE i \in 1..16 : HexDigits[i] = c \/ HexLower[i] = c) - 1

AsciiCode(h, l) == 16 * HexValue(h) + HexValue(l)

RECURSIVE FormUnescape(_)
\* application/x-www-form-urlencoded decoding of a name or value: "+" is a
\* space and %XY the character with code XY (of the characters of Ascii).
FormUnescape(s) ==
    IF s = <<>> THEN <<>>
    ELSE IF Head(s) = "+" THEN <<" ">> \o FormUnescape(Tail(s))
    ELSE IF /\ Head(s) = "%"
            /\ Len(s) >= 3
            /\ IsHex(s[2]) /\ IsHex(s[3])
            /\ AsciiCode(s[2], s[3]) \in (32..126) \ {96}
         THEN <<IF AsciiCode(s[2], s[3]) < 96
                THEN Ascii[AsciiCode(s[2], s[3]) - 31]
                ELSE Ascii[AsciiCode(s[2], s[3]) - 32]>>
              \o FormUnescape(SubSeq(s, 4, Len(s)))
    ELSE <<Head(s)>> \o FormUnescape(Tail(s))

\* One name=value piece, split at its first "=".
FormField(piece) ==
    LET eqs == {i \in 1..Len(piece) : piece[i] = "="}
        at == IF eqs = {} THEN Len(piece) + 1
              ELSE CHOOSE i \in eqs : \A j \in eqs : i <= j
    IN [name |-> FormUnescape(SubSeq(piece, 1, at - 1)),
        value |-> FormUnescape(SubSeq(piece, at + 1, Len(piece)))]

\* The fields a form decoder reads from a POST body, in order; empty pieces
\* are skipped.
FormDecode(body) ==
    LET pieces == SelectSeq(Split(body, "&", <<>>), LAMBDA p : p # <<>>)
    IN [i \in 1..Len(pieces) |-> FormField(pieces[i])]

\* The elements a list-literal reader finds in "[...]": the text between
\* the brackets split at the commas, no element when there is no text.
ListElements(datalist) ==
    LET inner == SubSeq(datalist, 2, Len(datalist) - 1)
    IN IF inner = <<>> THEN <<>> ELSE Split(inner, ",", <<>>)

RECURSIVE Join(_, _)
\* The strings of a sequence, separated by sep.
Join(strs, sep) ==
    IF strs = <<>> THEN <<>>
    ELSE IF Len(strs) = 1 THEN strs[1]
    ELSE strs[1] \o <<sep>> \o Join(Tail(strs), sep)

Count(s, c) == Cardinality({i \in 1..Len(s) : s[i] = c})

\* ------------------------------------------------------------------ claims
\* A prediction call has been made and has ended.
Called == call.entry # "none" /\ pc = "idle"

\* The error kind a caller can tell from the C++ type of the exception:
\* runtime_error is thrown for the server's error documents only and
\* parse_error for unparsable bodies only; no other kind has a type.
ErrorKind(o) ==
    IF o.kind # "threw" THEN "none"
    ELSE IF o.exception = "runtime_error" THEN "RemoteError"
    ELSE IF o.exception = "parse_error" THEN "MalformedResponseError"
    ELSE "unclassified"

\* The last call attempted a transfer and it failed at transport level.
TransferFailed == Called /\ transfers # <<>> /\ call.reply.net # "ok"

\* The last call's transfer delivered the complete body of the server.
ResponseReceived == Called /\ transfers # <<>> /\ call.reply.net = "ok"

\* The text is a document whose status is "error".
StatusIsError(text) ==
    LET r == JsonParse(text)
    IN  /\ r.ok
        /\ r.v.t = "object"
        /\ KeyIndex(r.v.keys, KeyStatus) # {}
        /\ Subscript(r.v, KeyStatus).val = JString(StrError)

\* C1: when the previous call on the instance returned the server's success
\* document and the server answers this call with a success document too,
\* this call returns that document.
C1_SecondCallServed ==
    (/\ calls >= 2
     /\ history[calls - 1]
     /\ call.reply.net = "ok"
     /\ call.reply.body \in DOMAIN Served)
    => outcome = Served[call.reply.body]

\* C2: a call whose transfer failed at transport level throws TransferError
\* and does not hand the buffer to the result decoder.
C2_TransferErrorRaised ==
    TransferFailed =>
        /\ outcome.kind = "threw"
        /\ ErrorKind(outcome) = "TransferError"
        /\ ~decoded.passed

\* C3: predict_file on a path that cannot be opened throws FileReadError,
\* transfers nothing and makes no call on the handle.
C3_FileReadErrorRaised ==
    (Called /\ call.entry = "predict_file" /\ ~call.readable) =>
        /\ outcome.kind = "threw"
        /\ ErrorKind(outcome) = "FileReadError"
        /\ transfers = <<>>
        /\ ops = <<>>

\* C4: when the response received has status "error", the call throws
\* RemoteError and the error carries fields type and message equal to the
\* type and message of the response.
C4_RemoteErrorFields ==
    (ResponseReceived /\ StatusIsError(call.reply.body)) =>
        LET doc == JsonParse(call.reply.body).v
        IN  /\ outcome.kind = "threw"
            /\ ErrorKind(outcome) = "RemoteError"
            /\ {"type", "message"} \subseteq DOMAIN outcome
            /\ JString(outcome.type) = Subscript(doc, KeyType).val
            /\ JString(outcome.message) = Subscript(doc, KeyMessage).val

\* C5: when the string handed to the decoder is a well-formed document whose
\* status is not "error", the call returns a document equal to the parsed
\* string.
C5_ResultUnmodified ==
    (/\ decoded.passed
     /\ JsonParse(decoded.result).ok
     /\ ~StatusIsError(decoded.result))
    => outcome = Returned(JsonParse(decoded.result).v)

\* The one error kind the circumstances of the last call ask for.
Cause ==
    IF call.entry = "predict_file" /\ ~call.readable THEN "FileReadError"
    ELSE IF call.reply.net # "ok" THEN "TransferError"
    ELSE IF ~JsonParse(call.reply.body).ok THEN "MalformedResponseError"
    ELSE IF StatusIsError(call.reply.body) THEN "RemoteError"
    ELSE "none"

\* C6: a call that received a body that is not a well-formed document throws
\* MalformedResponseError, and every call that does not return a result
\* throws the one of the four kinds that its circumstances ask for.
C6_ErrorKindIdentified ==
    /\ (ResponseReceived /\ ~JsonParse(call.reply.body).ok) =>
           (outcome.kind = "threw" /\ ErrorKind(outcome) = "MalformedResponseError")
    /\ (Called /\ outcome.kind # "returned") =>
           (outcome.kind = "threw" /\ ErrorKind(outcome) = Cause)

FormName(chars, value) == [name |-> chars, value |-> value]

\* C7: form-decoding the transferred POST body yields exactly the fields
\* get_results_as_string = 1, mode, data (the data verbatim) and mapping.
C7_FormFields ==
    (Called /\ transfers # <<>>) =>
        FormDecode(transfers[1]) =
            << FormName(<<"g","e","t","_","r","e","s","u","l","t","s","_","a","s","_",
                          "s","t","r","i","n","g">>, <<"1">>),
               FormName(<<"m","o","d","e">>,
                        IF call.entry = "predict_values" THEN ModeValues ELSE ModeFile),
               FormName(<<"d","a","t","a">>, call.data),
               FormName(<<"m","a","p","p","i","n","g">>,
                        IF call.mapping THEN <<"1">> ELSE <<"0">>) >>

\* The renderings of the floats of the last predict_values call, in order.
Renderings == [i \in 1..Len(call.floats) |-> Render(call.floats[i])]

\* C8: predict_values encodes n floats as "[", their renderings in input
\* order separated by n-1 commas (none when n <= 1), and "]"; reading the
\* list literal back yields the n renderings in input order.
C8_ListLiteral ==
    call.entry = "predict_values" =>
        /\ call.data = <<"[">> \o Join(Renderings, ",") \o <<"]">>
        /\ Count(call.data, ",") = IF Len(call.floats) <= 1 THEN 0
                                   ELSE Len(call.floats) - 1
        /\ ListElements(call.data) = Renderings

\* predict_values has encoded two different floats.
C8_Witness ==
    /\ call.entry = "predict_values"
    /\ pc = "query"
    /\ Len(call.floats) = 2
    /\ call.floats[1] # call.floats[2]
    /\ Count(call.data, ",") = 1

\* C9: every call whose query returned performed exactly one network
\* transfer.
C9_ExactlyOneTransfer ==
    (Called /\ outcome.kind # "crashed") => Len(transfers) = 1

\* C10: every libcurl call of a prediction call is made on a live handle,
\* and a handle a transfer was performed on is released afterwards.
C10_HandleLifecycle ==
    /\ \A i \in 1..Len(ops) : ops[i].handle = "live"
    /\ \A i \in 1..Len(ops) :
           ops[i].op = "perform" =>
               \E j \in (i + 1)..Len(ops) : ops[j].op = "cleanup"

====
